---------------------------- MODULE Spec2Model ----------------------------
(***************************************************************************)
(* Model of the bitfield engine of src/unnamed/part_000: class BitField    *)
(* (native-number kind, DefaultBit = 0, Flags = {}) and its subclass       *)
(* PermissionsBitField (bigint kind, DefaultBit = 0n, Flags =              *)
(* PermissionFlagsBits).                                                   *)
(*                                                                         *)
(* Integers are kept at full width as two's complement bit lists         *)
(* [b, n]: b the bits, least significant first, n TRUE when the bits      *)
(* above b are all 1 (the integer is negative).  The list never ends in   *)
(* the bit it is extended with, so equal integers are equal records.      *)
(*                                                                         *)
(* JavaScript values are records [t, v, fr, neg, s, a, ref]:               *)
(*   t   the runtime type: "number", "bigint", "string", "undefined",      *)
(*       "boolean", "array", "object" (a BitField instance), or the name   *)
(*       of a thrown error ("TypeError", "SyntaxError");                   *)
(*   v   the integer part of a number (truncated toward zero), the value   *)
(*       of a bigint, 1 or 0 for a boolean;                                *)
(*   fr  the fractional decimal digits of a non-integral number;           *)
(*   neg TRUE for a number below zero;                                     *)
(*   s   the characters of a string;                                       *)
(*   a   the elements of an array;                                         *)
(*   ref the heap index of an instance.                                    *)
(***************************************************************************)
EXTENDS Integers, Sequences, FiniteSets

VARIABLES heap, last

vars == <<heap, last>>

\* const x = e; F(x): e is evaluated once and F works on its value
With(e, F(_)) == CHOOSE y \in {F(x) : x \in {e}} : TRUE

----------------------------------------------------------------------------
(* Integers of any width *)

ExtBit(n) == IF n THEN 1 ELSE 0

\* the least / greatest element of a non-empty set of integers
Least(S) == CHOOSE i \in S : \A j \in S : i <= j

Greatest(S) == CHOOSE i \in S : \A j \in S : j <= i

\* the integer with bits b extended by n, its list cut to the canonical length
ZNorm(b, n) ==
  LET keep == {i \in 1..Len(b) : b[i] # ExtBit(n)}
  IN  [b |-> SubSeq(b, 1, IF keep = {} THEN 0 ELSE Greatest(keep)), n |-> n]

Zero == [b |-> <<>>, n |-> FALSE]

MinusOne == [b |-> <<>>, n |-> TRUE]

RECURSIVE NatBits(_)
NatBits(k) == IF k = 0 THEN <<>> ELSE <<k % 2>> \o NatBits(k \div 2)

\* the integer k >= 0
ZNat(k) == [b |-> NatBits(k), n |-> FALSE]

\* 1 << k
ZPow2(k) == [b |-> [i \in 1..(k + 1) |-> IF i = k + 1 THEN 1 ELSE 0], n |-> FALSE]

ZBit(x, i) == IF i <= Len(x.b) THEN x.b[i] ELSE ExtBit(x.n)

ZLen(x, y) == IF Len(x.b) >= Len(y.b) THEN Len(x.b) ELSE Len(y.b)

BitAnd(x, y) == ZNorm([i \in 1..ZLen(x, y) |-> ZBit(x, i) * ZBit(y, i)], x.n /\ y.n)

BitOr(x, y) ==
  ZNorm([i \in 1..ZLen(x, y) |-> IF ZBit(x, i) = 1 \/ ZBit(y, i) = 1 THEN 1 ELSE 0],
        x.n \/ y.n)

BitNot(x) == [b |-> [i \in 1..Len(x.b) |-> 1 - x.b[i]], n |-> ~x.n]

\* b - 1 on the bits of an integer above zero: borrow through the low zeros
DecBits(b) ==
  LET k == Least({i \in 1..Len(b) : b[i] = 1})
  IN  [i \in 1..Len(b) |-> IF i < k THEN 1 ELSE IF i = k THEN 0 ELSE b[i]]

\* -x for x >= 0
ZNegate(x) == IF x = Zero THEN Zero ELSE BitNot(ZNorm(DecBits(x.b), FALSE))

\* b + 1 on the bits of an integer not below zero: carry through the low ones
IncBits(b) ==
  LET k == Least({i \in 1..(Len(b) + 1) : i > Len(b) \/ b[i] = 0})
  IN  [i \in 1..(IF k > Len(b) THEN k ELSE Len(b)) |->
         IF i < k THEN 0 ELSE IF i = k THEN 1 ELSE b[i]]

\* |x|
ZAbs(x) == IF x.n THEN ZNorm(IncBits(BitNot(x).b), FALSE) ELSE x

\* ToInt32 of the ECMAScript specification, on an integer: the low 32 bits,
\* read as a signed integer.
ToInt32(x) == ZNorm([i \in 1..31 |-> ZBit(x, i)], ZBit(x, 32) = 1)

\* Change of radix, on lists of digits with the least significant first:
\* acc * k + c in the radix base
RECURSIVE MulAdd(_, _, _, _)
MulAdd(acc, k, c, base) ==
  IF acc = <<>> THEN (IF c = 0 THEN <<>> ELSE <<c % base>> \o MulAdd(<<>>, k, c \div base, base))
  ELSE <<(Head(acc) * k + c) % base>> \o MulAdd(Tail(acc), k, (Head(acc) * k + c) \div base, base)

\* the digits in radix to of the integer with digits src in radix from
RECURSIVE Convert(_, _, _)
Convert(src, from, to) ==
  IF src = <<>> THEN <<>> ELSE MulAdd(Convert(Tail(src), from, to), from, Head(src), to)

\* the digits of width w and radix r^w that group the digits ds of radix r
RECURSIVE GroupVal(_, _, _, _)
GroupVal(ds, r, from, w) ==
  IF w = 0 \/ from > Len(ds) THEN 0 ELSE ds[from] + r * GroupVal(ds, r, from + 1, w - 1)

Group(ds, r, w) == [k \in 1..((Len(ds) + w - 1) \div w) |-> GroupVal(ds, r, (k - 1) * w + 1, w)]

\* the digits of radix r that spell out the digits gs of radix r^w
Ungroup(gs, r, w) ==
  [i \in 1..(Len(gs) * w) |-> (gs[((i - 1) \div w) + 1] \div (r ^ ((i - 1) % w))) % r]

\* bits to decimal digits and back, through digits of radix 2^13 and 10^4
BitsToDecimal(b) == Ungroup(Convert(Group(b, 2, 13), 2^13, 10^4), 10, 4)

DecimalToBits(ds) == Ungroup(Convert(Group(ds, 10, 4), 10^4, 2^13), 2, 13)

----------------------------------------------------------------------------
(* JavaScript values *)

Val(t, v, fr, neg, s, a, ref) ==
  [t |-> t, v |-> v, fr |-> fr, neg |-> neg, s |-> s, a |-> a, ref |-> ref]

Undefined == Val("undefined", Zero, <<>>, FALSE, <<>>, <<>>, 0)

Num(n) == Val("number", n, <<>>, n.n, <<>>, <<>>, 0)

Frac(n, fr, neg) == Val("number", n, fr, neg, <<>>, <<>>, 0)

Big(n) == Val("bigint", n, <<>>, FALSE, <<>>, <<>>, 0)

Str(s) == Val("string", Zero, <<>>, FALSE, s, <<>>, 0)

Arr(a) == Val("array", Zero, <<>>, FALSE, <<>>, a, 0)

Obj(i) == Val("object", Zero, <<>>, FALSE, <<>>, <<>>, i)

TypeError == Val("TypeError", Zero, <<>>, FALSE, <<>>, <<>>, 0)

SyntaxError == Val("SyntaxError", Zero, <<>>, FALSE, <<>>, <<>>, 0)

Bool(p) == Val("boolean", IF p THEN ZNat(1) ELSE Zero, <<>>, FALSE, <<>>, <<>>, 0)

True == Bool(TRUE)

False == Bool(FALSE)

IsThrow(x) == x.t \in {"TypeError", "SyntaxError"}

----------------------------------------------------------------------------
(* Bitwise operators of the language *)

\* ToNumeric followed by the type check of a binary bitwise operator:
\* undefined converts to NaN, which ToInt32 maps to 0.
Int32Of(x) == IF x.t = "undefined" THEN Zero ELSE ToInt32(x.v)

IsNumberLike(x) == x.t \in {"number", "undefined"}

\* a | b
JSOr(a, b) ==
  IF IsThrow(a) THEN a
  ELSE IF IsThrow(b) THEN b
  ELSE IF a.t = "bigint" /\ b.t = "bigint" THEN Big(BitOr(a.v, b.v))
  ELSE IF IsNumberLike(a) /\ IsNumberLike(b) THEN Num(BitOr(Int32Of(a), Int32Of(b)))
  ELSE TypeError

\* a & b
JSAnd(a, b) ==
  IF IsThrow(a) THEN a
  ELSE IF IsThrow(b) THEN b
  ELSE IF a.t = "bigint" /\ b.t = "bigint" THEN Big(BitAnd(a.v, b.v))
  ELSE IF IsNumberLike(a) /\ IsNumberLike(b) THEN Num(BitAnd(Int32Of(a), Int32Of(b)))
  ELSE TypeError

\* ~a
JSNot(a) ==
  IF IsThrow(a) THEN a
  ELSE IF a.t = "bigint" THEN Big(BitNot(a.v))
  ELSE Num(BitNot(Int32Of(a)))

\* a === b on numbers, bigints and undefined
StrictEq(a, b) == a = b

----------------------------------------------------------------------------
(* Strings: Number(s), BigInt(s), isNaN(s) and bigint.toString().  The     *)
(* numeric grammar covers white space, a sign, decimal digits, a decimal   *)
(* point and the 0x prefix with lower-case digits; exponents, "Infinity"  *)
(* and the 0b/0o prefixes are left out, and no modelled input uses them.   *)

Digits == <<"0", "1", "2", "3", "4", "5", "6", "7", "8", "9">>

HexDigits == Digits \o <<"a", "b", "c", "d", "e", "f">>

IndexOf(c, seq) == CHOOSE i \in 1..Len(seq) : seq[i] = c

IsDigit(c) == \E i \in 1..Len(Digits) : Digits[i] = c

IsHexDigit(c) == \E i \in 1..Len(HexDigits) : HexDigits[i] = c

DigitVal(c) == IndexOf(c, HexDigits) - 1

AllDigits(s) == \A i \in 1..Len(s) : IsDigit(s[i])

\* s without the white space around it
Trim(s) ==
  LET keep == {i \in 1..Len(s) : s[i] # " "}
  IN  IF keep = {} THEN <<>> ELSE SubSeq(s, Least(keep), Greatest(keep))

\* the values of the digit characters s, the least significant first
DigitVals(s) == [i \in 1..Len(s) |-> DigitVal(s[Len(s) + 1 - i])]

\* the integer written by the digits s in radix 10 or 16
ParseRadix(s, radix) ==
  IF radix = 16 THEN ZNorm(Ungroup(DigitVals(s), 2, 4), FALSE)
  ELSE ZNorm(DecimalToBits(DigitVals(s)), FALSE)

IsHexLiteral(s) ==
  /\ Len(s) >= 3
  /\ s[1] = "0"
  /\ s[2] \in {"x", "X"}
  /\ \A i \in 3..Len(s) : IsHexDigit(s[i])

HasSign(s) == s # <<>> /\ Head(s) \in {"+", "-"}

Unsigned(s) == IF HasSign(s) THEN Tail(s) ELSE s

DotAt(s) == IF \E i \in 1..Len(s) : s[i] = "." THEN IndexOf(".", s) ELSE Len(s) + 1

IntDigits(s) == SubSeq(s, 1, DotAt(s) - 1)

FracDigits(s) == SubSeq(s, DotAt(s) + 1, Len(s))

\* the fractional digits without their trailing zeros
StripZeros(s) ==
  LET keep == {i \in 1..Len(s) : s[i] # "0"}
  IN  SubSeq(s, 1, IF keep = {} THEN 0 ELSE Greatest(keep))

\* StrDecimalLiteral without exponent: digits, at most one point, one digit at least.
IsDecimalLiteral(s) ==
  With(IntDigits(s), LAMBDA int :
    With(FracDigits(s), LAMBDA fr :
      AllDigits(int) /\ AllDigits(fr) /\ Len(int) + Len(fr) >= 1))

\* Number(s).  NaN is reported by the field nan.
StringToNumber(s) ==
  With(Trim(s), LAMBDA t :
    With(Unsigned(t), LAMBDA u :
      LET mag == ParseRadix(IntDigits(u), 10)
          fr == StripZeros(FracDigits(u))
          neg == HasSign(t) /\ Head(t) = "-" /\ (mag # Zero \/ fr # <<>>)
      IN  IF t = <<>> THEN [nan |-> FALSE, val |-> Num(Zero)]
          ELSE IF IsHexLiteral(t)
            THEN [nan |-> FALSE, val |-> Num(ParseRadix(SubSeq(t, 3, Len(t)), 16))]
          ELSE IF IsDecimalLiteral(u)
            THEN [nan |-> FALSE, val |-> Frac(IF neg THEN ZNegate(mag) ELSE mag, fr, neg)]
          ELSE [nan |-> TRUE, val |-> Undefined]))

\* isNaN(s) for a string s
IsNaNString(s) == StringToNumber(s).nan

\* BigInt(s): StringToBigInt, a SyntaxError when the text is no integer literal.
StringToBigInt(s) ==
  With(Trim(s), LAMBDA t :
    With(Unsigned(t), LAMBDA u :
      IF t = <<>> THEN Big(Zero)
      ELSE IF IsHexLiteral(t) THEN Big(ParseRadix(SubSeq(t, 3, Len(t)), 16))
      ELSE IF u # <<>> /\ AllDigits(u)
        THEN Big(IF Head(t) = "-" THEN ZNegate(ParseRadix(u, 10)) ELSE ParseRadix(u, 10))
      ELSE SyntaxError))

\* the decimal digits of the integer with bits b, the most significant first
NatToString(b) ==
  LET ds == BitsToDecimal(b)
      keep == {i \in 1..Len(ds) : ds[i] # 0}
      n == IF keep = {} THEN 1 ELSE Greatest(keep)
  IN  [i \in 1..n |-> IF ds = <<>> THEN "0" ELSE Digits[ds[n + 1 - i] + 1]]

\* bigint.prototype.toString(): decimal digits, a leading "-" below zero.
BigIntToString(x) == IF x.n THEN <<"-">> \o NatToString(ZAbs(x).b) ELSE NatToString(x.b)

----------------------------------------------------------------------------
(* The two engines: their zero value and their flag registry *)

Classes == {"BitField", "PermissionsBitField"}

\* static DefaultBit
DefaultBit(cls) == IF cls = "PermissionsBitField" THEN Big(Zero) ELSE Num(Zero)

AdministratorName == <<"A", "d", "m", "i", "n", "i", "s", "t", "r", "a", "t", "o", "r">>

ViewChannelName == <<"V", "i", "e", "w", "C", "h", "a", "n", "n", "e", "l">>

SendMessagesName == <<"S", "e", "n", "d", "M", "e", "s", "s", "a", "g", "e", "s">>

\* PermissionFlagsBits of discord-api-types/v10, in declaration order; the
\* entries kept are those the repository's specification names:
\* Administrator = 1n << 3n, ViewChannel = 1n << 10n, SendMessages = 1n << 11n.
PermissionFlagsBits ==
  << [name |-> AdministratorName, bit |-> Big(ZPow2(3))],
     [name |-> ViewChannelName, bit |-> Big(ZPow2(10))],
     [name |-> SendMessagesName, bit |-> Big(ZPow2(11))] >>

\* PermissionFlagsBits.Administrator
Administrator == PermissionFlagsBits[1].bit

\* static Flags, as the ordered list of its own entries (Object.keys order)
Flags(cls) == IF cls = "PermissionsBitField" THEN PermissionFlagsBits ELSE <<>>

\* this.Flags[name] !== undefined
HasFlag(cls, name) == \E i \in 1..Len(Flags(cls)) : Flags(cls)[i].name = name

\* this.Flags[name]
FlagBit(cls, name) ==
  Flags(cls)[CHOOSE i \in 1..Len(Flags(cls)) : Flags(cls)[i].name = name].bit

----------------------------------------------------------------------------
(* static resolve(bit) *)

\* typeof DefaultBit === typeof bit && bit >= DefaultBit
IsOwnKindNotBelowDefault(cls, bit) ==
  /\ bit.t = DefaultBit(cls).t
  /\ IF bit.t = "bigint" THEN ~bit.v.n ELSE ~bit.neg

\* a reduce that keeps only the last element: the fault C7 is tried against
ReduceOrLastOnly(rs, prev) == IF rs = <<>> THEN prev ELSE JSOr(prev, rs[Len(rs)])

\* .reduce((prev, p) => prev | p, DefaultBit)
RECURSIVE ReduceOr(_, _)
ReduceOr(rs, prev) ==
  IF rs = <<>> THEN prev
  ELSE With(JSOr(prev, Head(rs)), LAMBDA next : ReduceOr(Tail(rs), next))

FirstThrow(rs) == rs[CHOOSE i \in 1..Len(rs) : IsThrow(rs[i]) /\ \A j \in 1..(i - 1) : ~IsThrow(rs[j])]

\* the string branch: Number or BigInt of a string that is not NaN, else the flag
ResolveString(cls, s) ==
  IF ~IsNaNString(s)
    THEN IF DefaultBit(cls).t = "bigint" THEN StringToBigInt(s) ELSE StringToNumber(s).val
  ELSE IF HasFlag(cls, s) THEN FlagBit(cls, s)
  ELSE Undefined

RECURSIVE Resolve(_, _, _)
Resolve(h, cls, bit) ==
  IF IsOwnKindNotBelowDefault(cls, bit) THEN bit
  ELSE IF bit.t = "object" THEN h[bit.ref].bitfield
  ELSE IF bit.t = "array"
    THEN With([i \in 1..Len(bit.a) |-> Resolve(h, cls, bit.a[i])], LAMBDA rs :
           IF \E i \in 1..Len(rs) : IsThrow(rs[i]) THEN FirstThrow(rs)
           ELSE ReduceOr(rs, DefaultBit(cls)))
  ELSE IF bit.t = "string" THEN ResolveString(cls, bit.s)
  ELSE Undefined

----------------------------------------------------------------------------
(* Instances: heap[i] = [cls, bitfield, frozen].  An operation yields      *)
(* [h, ret]: the heap after it and the value it returns or the error it    *)
(* throws.                                                                 *)

Instance(cls, bitfield) == [cls |-> cls, bitfield |-> bitfield, frozen |-> FALSE]

\* constructor(bits = this.constructor.DefaultBit)
Construct(h, cls, bits) ==
  With(Resolve(h, cls, IF bits = Undefined THEN DefaultBit(cls) ELSE bits), LAMBDA r :
    IF IsThrow(r) THEN [h |-> h, ret |-> r]
    ELSE [h |-> Append(h, Instance(cls, r)), ret |-> Obj(Len(h) + 1)])

\* let total = DefaultBit; for (const bit of bits) total |= resolve(bit)
RECURSIVE Total(_, _, _, _)
Total(h, cls, bits, total) ==
  IF bits = <<>> \/ IsThrow(total) THEN total
  ELSE With(Resolve(h, cls, Head(bits)), LAMBDA bit :
         With(JSOr(total, bit), LAMBDA next : Total(h, cls, Tail(bits), next)))

\* the receiver with the new value: a new instance when frozen, else in place
Store(h, o, value) ==
  IF IsThrow(value) THEN [h |-> h, ret |-> value]
  ELSE IF h[o].frozen THEN Construct(h, h[o].cls, value)
  ELSE [h |-> [h EXCEPT ![o].bitfield = value], ret |-> Obj(o)]

\* add(...bits)
Add(h, o, bits) ==
  With(Total(h, h[o].cls, bits, DefaultBit(h[o].cls)), LAMBDA total :
    With(JSOr(h[o].bitfield, total), LAMBDA value : Store(h, o, value)))

\* remove(...bits)
Remove(h, o, bits) ==
  With(Total(h, h[o].cls, bits, DefaultBit(h[o].cls)), LAMBDA total :
    With(JSAnd(h[o].bitfield, JSNot(total)), LAMBDA value : Store(h, o, value)))

\* freeze()
Freeze(h, o) == [h |-> [h EXCEPT ![o].frozen = TRUE], ret |-> Obj(o)]

----------------------------------------------------------------------------
(* Queries *)

\* BitField.prototype.has
BaseHas(h, o, bit) ==
  With(Resolve(h, h[o].cls, bit), LAMBDA b :
    With(JSAnd(h[o].bitfield, b), LAMBDA m :
      IF IsThrow(m) THEN m ELSE Bool(StrictEq(m, b))))

\* BitField.prototype.any
BaseAny(h, o, bit) ==
  With(Resolve(h, h[o].cls, bit), LAMBDA b :
    With(JSAnd(h[o].bitfield, b), LAMBDA m :
      IF IsThrow(m) THEN m ELSE Bool(~StrictEq(m, DefaultBit(h[o].cls)))))

\* equals(bit)
Equals(h, o, bit) ==
  With(Resolve(h, h[o].cls, bit), LAMBDA b :
    IF IsThrow(b) THEN b ELSE Bool(StrictEq(h[o].bitfield, b)))

\* (checkAdmin && super.has(PermissionFlagsBits.Administrator)) || rest
AdminOr(h, o, checkAdmin, rest) ==
  IF ~checkAdmin THEN rest
  ELSE With(BaseHas(h, o, Administrator), LAMBDA admin : IF admin # False THEN admin ELSE rest)

\* has without the administrator override: the fault C2 is tried against
PermHasNoOverride(h, o, permission, checkAdmin) == BaseHas(h, o, permission)

\* PermissionsBitField.prototype.has
PermHas(h, o, permission, checkAdmin) == AdminOr(h, o, checkAdmin, BaseHas(h, o, permission))

\* PermissionsBitField.prototype.any
PermAny(h, o, permission, checkAdmin) == AdminOr(h, o, checkAdmin, BaseAny(h, o, permission))

\* this.has(bit, checkAdmin), dispatched on the receiver's class
Has(h, o, bit, checkAdmin) ==
  IF h[o].cls = "PermissionsBitField" THEN PermHas(h, o, bit, checkAdmin) ELSE BaseHas(h, o, bit)

\* this.any(bit, checkAdmin), dispatched on the receiver's class
Any(h, o, bit, checkAdmin) ==
  IF h[o].cls = "PermissionsBitField" THEN PermAny(h, o, bit, checkAdmin) ELSE BaseAny(h, o, bit)

\* *[Symbol.iterator](...hasParams): the names of Flags, in order, that are not
\* numeric keys and that this.has accepts; the first error thrown ends it.
RECURSIVE Iterate(_, _, _, _, _)
Iterate(h, o, checkAdmin, i, out) ==
  IF i > Len(Flags(h[o].cls)) THEN Arr(out)
  ELSE LET name == Flags(h[o].cls)[i].name
       IN  IF ~IsNaNString(name) THEN Iterate(h, o, checkAdmin, i + 1, out)
           ELSE With(Has(h, o, Str(name), checkAdmin), LAMBDA r :
                  IF IsThrow(r) THEN r
                  ELSE IF r = True THEN Iterate(h, o, checkAdmin, i + 1, Append(out, Str(name)))
                  ELSE Iterate(h, o, checkAdmin, i + 1, out))

\* BitField.prototype.toArray(...hasParams)
BaseToArray(h, o, checkAdmin) == Iterate(h, o, checkAdmin, 1, <<>>)

\* this.toArray(...hasParams): PermissionsBitField.prototype.toArray takes no
\* parameter and calls super.toArray(false)
ToArray(h, o, checkAdmin) ==
  IF h[o].cls = "PermissionsBitField" THEN BaseToArray(h, o, FALSE)
  ELSE BaseToArray(h, o, checkAdmin)

\* BitField.prototype.missing: new this.constructor(bits).remove(this).toArray()
BaseMissing(h, o, bits, checkAdmin) ==
  With(Construct(h, h[o].cls, bits), LAMBDA made :
    IF IsThrow(made.ret) THEN made.ret
    ELSE With(Remove(made.h, made.ret.ref, <<Obj(o)>>), LAMBDA left :
           IF IsThrow(left.ret) THEN left.ret
           ELSE ToArray(left.h, left.ret.ref, checkAdmin)))

\* missing without the administrator override: the fault C10 is tried against
PermMissingNoOverride(h, o, bits, checkAdmin) == BaseMissing(h, o, bits, TRUE)

\* PermissionsBitField.prototype.missing(bits, checkAdmin = true): the condition
\* calls this.has(Administrator) with has's own default checkAdmin = true
PermMissing(h, o, bits, checkAdmin) ==
  With(IF checkAdmin THEN PermHas(h, o, Administrator, TRUE) ELSE False, LAMBDA admin :
    IF IsThrow(admin) THEN admin
    ELSE IF admin = True THEN Arr(<<>>)
    ELSE BaseMissing(h, o, bits, TRUE))

\* this.missing(bits, checkAdmin), dispatched on the receiver's class
Missing(h, o, bits, checkAdmin) ==
  IF h[o].cls = "PermissionsBitField" THEN PermMissing(h, o, bits, checkAdmin)
  ELSE BaseMissing(h, o, bits, checkAdmin)

\* toJSON(): the number itself, else bitfield.toString(); undefined has no
\* toString and the call throws
ToJSON(h, o) ==
  LET bitfield == h[o].bitfield
  IN  IF bitfield.t = "number" THEN bitfield
      ELSE IF bitfield.t = "bigint" THEN Str(BigIntToString(bitfield.v))
      ELSE TypeError

----------------------------------------------------------------------------
(* Bounds and the inputs the calls are made with *)

\* instances alive at once
MaxObjs == 2

\* a bit position past every entry of the registry
UnnamedBit == ZPow2(47)

NotAFlagName == <<"N", "o", "t", "A", "F", "l", "a", "g">>

Objects(h) == 1..Len(h)

\* arguments of the constructor
NewInputs ==
  { Undefined, Big(ZPow2(3)), Str(NotAFlagName), Str(<<"-", "1">>),
    Arr(<<Str(ViewChannelName), Str(SendMessagesName)>>) }

\* argument lists of add and remove
ArgLists ==
  { <<>>, <<Str(AdministratorName)>>, <<Big(ZPow2(10))>>, <<Num(ZNat(1))>>,
    <<Undefined>>, <<Str(NotAFlagName), Num(ZNat(1))>> }

\* arguments of has, any, missing and equals
QueryInputs(h) ==
  { Str(AdministratorName), Big(UnnamedBit), Big(BitOr(ZPow2(10), ZPow2(11))) }
  \cup { Obj(i) : i \in Objects(h) }

----------------------------------------------------------------------------
(* The caller: it makes one call, holds what the call returned (last), and *)
(* goes on to the next statement.                                          *)

Call(op, cls, recv, args, ca, pre, ret) ==
  [op |-> op, cls |-> cls, recv |-> recv, args |-> args, ca |-> ca, pre |-> pre, ret |-> ret]

Idle == Call("idle", "", 0, <<>>, FALSE, <<>>, Undefined)

Init == heap = <<>> /\ last = Idle

\* new cls(bits)
New(cls, bits) ==
  /\ last = Idle
  /\ Len(heap) < MaxObjs
  /\ LET r == Construct(heap, cls, bits)
     IN  /\ heap' = r.h
         /\ last' = Call("new", cls, 0, <<bits>>, FALSE, heap, r.ret)

Mutate(op, o, args, r) ==
  /\ Len(r.h) <= MaxObjs
  /\ heap' = r.h
  /\ last' = Call(op, heap[o].cls, o, args, FALSE, heap, r.ret)

\* o.add(...args)
DoAdd(o, args) == last = Idle /\ Mutate("add", o, args, Add(heap, o, args))

\* o.remove(...args)
DoRemove(o, args) == last = Idle /\ Mutate("remove", o, args, Remove(heap, o, args))

\* o.freeze()
DoFreeze(o) == last = Idle /\ Mutate("freeze", o, <<>>, Freeze(heap, o))

\* o.add(...args).remove(...args): remove called on what add returned
ChainRemove ==
  /\ last.op = "add"
  /\ last.ret.t = "object"
  /\ LET r == Remove(heap, last.ret.ref, last.args)
     IN  /\ Len(r.h) <= MaxObjs
         /\ heap' = r.h
         /\ last' = Call("add.remove", last.cls, last.recv, last.args, FALSE, last.pre, r.ret)

Query(op, o, args, ca, ret) ==
  /\ last = Idle
  /\ heap' = heap
  /\ last' = Call(op, heap[o].cls, o, args, ca, heap, ret)

\* o.has(bit, checkAdmin)
DoHas(o, bit, ca) == Query("has", o, <<bit>>, ca, Has(heap, o, bit, ca))

\* o.any(bit, checkAdmin)
DoAny(o, bit, ca) == Query("any", o, <<bit>>, ca, Any(heap, o, bit, ca))

\* o.missing(bits, checkAdmin)
DoMissing(o, bits, ca) == Query("missing", o, <<bits>>, ca, Missing(heap, o, bits, ca))

\* o.equals(bit)
DoEquals(o, bit) == Query("equals", o, <<bit>>, FALSE, Equals(heap, o, bit))

\* o.toArray()
DoToArray(o) == Query("toArray", o, <<>>, FALSE, ToArray(heap, o, TRUE))

\* o.toJSON()
DoToJSON(o) == Query("toJSON", o, <<>>, FALSE, ToJSON(heap, o))

\* new o.constructor(o.toJSON()): the constructor called on what toJSON returned
Reconstruct ==
  /\ last.op = "toJSON"
  /\ ~IsThrow(last.ret)
  /\ Len(heap) < MaxObjs
  /\ LET r == Construct(heap, last.cls, last.ret)
     IN  /\ heap' = r.h
         /\ last' = Call("toJSON.new", last.cls, last.recv, <<last.ret>>, FALSE, heap, r.ret)

\* the statement ends; the caller goes on
Return == last # Idle /\ last' = Idle /\ heap' = heap

Next ==
  \/ \E cls \in Classes, bits \in NewInputs : New(cls, bits)
  \/ \E o \in Objects(heap), args \in ArgLists : DoAdd(o, args)
  \/ \E o \in Objects(heap), args \in ArgLists : DoRemove(o, args)
  \/ \E o \in Objects(heap) : DoFreeze(o)
  \/ ChainRemove
  \/ \E o \in Objects(heap), bit \in QueryInputs(heap), ca \in BOOLEAN : DoHas(o, bit, ca)
  \/ \E o \in Objects(heap), bit \in QueryInputs(heap), ca \in BOOLEAN : DoAny(o, bit, ca)
  \/ \E o \in Objects(heap), bit \in QueryInputs(heap), ca \in BOOLEAN : DoMissing(o, bit, ca)
  \/ \E o \in Objects(heap), bit \in QueryInputs(heap) : DoEquals(o, bit)
  \/ \E o \in Objects(heap) : DoToArray(o)
  \/ \E o \in Objects(heap) : DoToJSON(o)
  \/ Reconstruct
  \/ Return

Spec == Init /\ [][Next]_vars

----------------------------------------------------------------------------
(* resolve on its own: the caller holds one instance of each engine and    *)
(* calls the static method with strings over Alphabet, registry names,     *)
(* integers of either kind, the instances, and sequences of these.         *)

\* longest string over Alphabet
MaxLen == 3

\* longest sequence handed to resolve
MaxSeq == 2

Alphabet == {"0", "1", "-", ".", "x"}

\* the strings over Alphabet of length n
Strings(n) == [1..n -> Alphabet]

\* elements of the sequences handed to resolve
Elements ==
  { Big(ZPow2(10)), Big(UnnamedBit), Num(ZNat(1)), Num(ZNat(2)), Str(<<"1">>), Str(<<"1", "0">>),
    Str(AdministratorName), Str(SendMessagesName), Obj(1), Obj(2), Arr(<<>>),
    Arr(<<Str(ViewChannelName), Big(ZPow2(11))>>), Arr(<<Num(ZNat(2)), Str(<<"1">>)>>),
    Undefined, Str(NotAFlagName) }

ResolveInputs ==
  { Str(s) : s \in UNION { Strings(n) : n \in 0..MaxLen } }
  \cup Elements
  \cup { Arr(a) : a \in UNION { [1..n -> Elements] : n \in 1..MaxSeq } }

\* const permissions = new PermissionsBitField(1n << 11n), bits = new BitField(1)
InitResolve ==
  /\ heap = Construct(Construct(<<>>, "PermissionsBitField", Big(ZPow2(11))).h,
                      "BitField", Num(ZNat(1))).h
  /\ last = Idle

\* cls.resolve(bit)
DoResolve(cls, bit) ==
  /\ last = Idle
  /\ heap' = heap
  /\ last' = Call("resolve", cls, 0, <<bit>>, FALSE, heap, Resolve(heap, cls, bit))

NextResolve ==
  \/ \E cls \in Classes, bit \in ResolveInputs : DoResolve(cls, bit)
  \/ Return

SpecResolve == InitResolve /\ [][NextResolve]_vars

----------------------------------------------------------------------------
(* Claims about resolve, checked under SpecResolve *)

\* a string of decimal digits only
IsDigitString(s) == s # <<>> /\ AllDigits(s)

\* the inputs the specification calls resolvable: an unsigned integer of the
\* engine's kind, a digit string, a registry name, an instance, a sequence of these
RECURSIVE WellFormed(_, _)
WellFormed(cls, bit) ==
  \/ bit.t = DefaultBit(cls).t /\ bit.t = "bigint" /\ ~bit.v.n
  \/ bit.t = DefaultBit(cls).t /\ bit.t = "number" /\ ~bit.neg /\ bit.fr = <<>>
  \/ bit.t = "string" /\ (IsDigitString(bit.s) \/ HasFlag(cls, bit.s))
  \/ bit.t = "object"
  \/ bit.t = "array" /\ \A i \in 1..Len(bit.a) : WellFormed(cls, bit.a[i])

\* zero | vs[1] | ... | vs[n], the operator | applied from the left
RECURSIVE OrOf(_, _)
OrOf(vs, zero) ==
  IF vs = <<>> THEN zero ELSE JSOr(OrOf(SubSeq(vs, 1, Len(vs) - 1), zero), vs[Len(vs)])

\* bit k of the integer x is set
BitSet(x, k) == ZBit(x, k) = 1

\* the integer r has exactly the bits set that some integer of vs has set
IsBitUnion(r, vs) ==
  /\ ~r.n
  /\ \A k \in 1..(Len(r.b) + 1) : BitSet(r, k) <=> \E i \in 1..Len(vs) : BitSet(vs[i], k)
  /\ \A i \in 1..Len(vs) : Len(vs[i].b) <= Len(r.b)

ResolveCall == last.op = "resolve"

\* resolve applied to each element of the sequence the call was given
ElementResults == [i \in 1..Len(last.args[1].a) |-> Resolve(heap, last.cls, last.args[1].a[i])]

\* C7: resolve of a sequence of well-formed resolvables is the bitwise OR of
\* resolve applied to each element, taken from the engine's zero value, so that
\* resolve of the empty sequence is that zero value; when the elements resolve
\* to unsigned big integers, the result has exactly the bits set in one of them.
C7_UnionLaw ==
  (ResolveCall /\ last.args[1].t = "array" /\ WellFormed(last.cls, last.args[1]))
    => /\ last.ret = OrOf(ElementResults, DefaultBit(last.cls))
       /\ last.args[1].a = <<>> => last.ret = DefaultBit(last.cls)
       /\ (\A i \in 1..Len(ElementResults) :
             ElementResults[i].t = "bigint" /\ ~ElementResults[i].v.n)
            /\ last.cls = "PermissionsBitField"
          => /\ last.ret.t = "bigint"
             /\ IsBitUnion(last.ret.v, [i \in 1..Len(ElementResults) |-> ElementResults[i].v])

\* a sequence of a registry name and a nested sequence resolved to the union of their bits
C7_Witness ==
  /\ ResolveCall
  /\ last.cls = "PermissionsBitField"
  /\ last.args[1] = Arr(<<Str(AdministratorName),
                          Arr(<<Str(ViewChannelName), Big(ZPow2(11))>>)>>)
  /\ last.ret = Big(BitOr(ZPow2(3), BitOr(ZPow2(10), ZPow2(11))))

\* C8: resolve yields no value (and raises nothing) exactly when its input is none
\* of: an integer of the engine's kind, a string of decimal digits only, a
\* registry name, an instance, a sequence of resolvables.
C8_FailsExactlyOnUnresolvable ==
  ResolveCall => (last.ret = Undefined <=> ~WellFormed(last.cls, last.args[1]))

----------------------------------------------------------------------------
(* Claims about instances, checked under Spec *)

\* the instance the call was made on, before and after it
Before == last.pre[last.recv]

After == heap[last.recv]

\* v is an unsigned integer of the kind of the engine cls
IsUnsignedOfKind(cls, v) == v.t = DefaultBit(cls).t /\ ~v.v.n /\ ~v.neg /\ v.fr = <<>>

\* every bit of the flag is set in the wrapped value v
IsSetIn(v, flag) == v.t \in {"number", "bigint"} /\ BitAnd(v.v, flag.v) = flag.v

\* the k-th smallest element of the set I of integers
Kth(I, k) == CHOOSE i \in I : Cardinality({j \in I : j < i}) = k - 1

\* the names of the registry of cls whose entries are in the index set I, in declaration order
NamesAt(cls, I) == Arr([k \in 1..Cardinality(I) |-> Str(Flags(cls)[Kth(I, k)].name)])

\* the registry names whose flag is set in v
NamesSetIn(cls, v) == NamesAt(cls, {i \in 1..Len(Flags(cls)) : IsSetIn(v, Flags(cls)[i].bit)})

\* the registry names whose flag is set in bits and not set in v
NamesMissingFrom(cls, bits, v) ==
  NamesAt(cls, {i \in 1..Len(Flags(cls)) :
                  IsSetIn(bits, Flags(cls)[i].bit) /\ ~IsSetIn(v, Flags(cls)[i].bit)})

\* every bit set in the unsigned integer x is the bit of a registry entry of cls
AllNamed(cls, x) ==
  \A k \in 1..Len(x.b) : BitSet(x, k) => \E i \in 1..Len(Flags(cls)) : BitSet(Flags(cls)[i].bit.v, k)

\* the value add or remove computes from the receiver and the arguments
Combined ==
  LET total == Total(last.pre, last.cls, last.args, DefaultBit(last.cls))
  IN  IF last.op = "add" THEN JSOr(Before.bitfield, total)
      ELSE JSAnd(Before.bitfield, JSNot(total))

\* C1: add or remove on a frozen instance, with any arguments, returns another
\* instance, which holds the combined value, and leaves the frozen instance as it was.
C1_CopyOnWrite ==
  (last.op \in {"add", "remove"} /\ Before.frozen)
    => /\ last.ret.t = "object"
       /\ last.ret.ref # last.recv
       /\ heap[last.ret.ref].bitfield = Combined
       /\ After = Before

\* C2: with the administrator bit set in the receiver, has and any return true and
\* missing returns the empty sequence when checkAdmin is true, whatever the
\* argument, while toArray returns exactly the names of the bits set in the value.
C2_AdministratorOverride ==
  (last.cls = "PermissionsBitField" /\ last.recv # 0 /\ IsSetIn(Before.bitfield, Administrator))
    => /\ last.op \in {"has", "any"} /\ last.ca => last.ret = True
       /\ last.op = "missing" /\ last.ca => last.ret = Arr(<<>>)
       /\ last.op = "toArray" => last.ret = NamesSetIn(last.cls, Before.bitfield)
       /\ last.op = "toArray" /\ Before.bitfield = Administrator
            => last.ret = Arr(<<Str(AdministratorName)>>)

\* an administrator-only instance was asked has(ViewChannel | SendMessages) and said true
C2_Witness ==
  /\ last.op = "has"
  /\ last.cls = "PermissionsBitField"
  /\ last.ca
  /\ Before.bitfield = Administrator
  /\ last.args = <<Big(BitOr(ZPow2(10), ZPow2(11)))>>
  /\ last.ret = True

\* C3: missing(bits) returns the registry names whose flag is set in the resolved
\* bits and not in the receiver, in declaration order, whenever the administrator
\* override does not apply.
C3_MissingNames ==
  (/\ last.op = "missing"
   /\ IsUnsignedOfKind(last.cls, Resolve(last.pre, last.cls, last.args[1]))
   /\ ~(last.cls = "PermissionsBitField" /\ last.ca /\ IsSetIn(Before.bitfield, Administrator)))
    => last.ret = NamesMissingFrom(last.cls, Resolve(last.pre, last.cls, last.args[1]),
                                   Before.bitfield)

\* the arguments of the call that are well-formed
GoodArgs == SelectSeq(last.args, LAMBDA bit : WellFormed(last.cls, bit))

\* the call made with the well-formed arguments only
GoodCall ==
  IF last.op = "add" THEN Add(last.pre, last.recv, GoodArgs)
  ELSE Remove(last.pre, last.recv, GoodArgs)

\* C4: an add or remove with an unresolvable element among its arguments raises
\* nothing and gives what the call with the well-formed arguments alone gives.
C4_SilentAbsence ==
  (/\ last.op \in {"add", "remove"}
   /\ \E i \in 1..Len(last.args) : Resolve(last.pre, last.cls, last.args[i]) = Undefined)
    => /\ ~IsThrow(last.ret)
       /\ last.ret = GoodCall.ret
       /\ heap = GoodCall.h

\* C5: B.add(f).remove(f), for a registry flag f not set in B, returns an
\* instance whose value is the value B had, and equals says so.
C5_InverseLaw ==
  (/\ last.op = "add.remove"
   /\ Len(last.args) = 1
   /\ last.args[1].t = "string"
   /\ HasFlag(last.cls, last.args[1].s)
   /\ Before.bitfield.t = "bigint"
   /\ ~IsSetIn(Before.bitfield, FlagBit(last.cls, last.args[1].s)))
    => /\ last.ret.t = "object"
       /\ heap[last.ret.ref].bitfield = Before.bitfield
       /\ Equals(heap, last.ret.ref, Before.bitfield) = True

\* C6: toJSON gives the raw number in the number engine and the decimal string
\* otherwise, and the constructor of the same engine makes of it an instance
\* with the value of the original.
C6_RoundTrip ==
  /\ last.op = "toJSON"
       => IF last.cls = "BitField" THEN last.ret = Before.bitfield
          ELSE last.ret.t = "string" /\ IsDigitString(last.ret.s)
  /\ last.op = "toJSON.new"
       => last.ret.t = "object" /\ heap[last.ret.ref].bitfield = Before.bitfield

\* C9: the wrapped value of every instance is an unsigned integer of the kind of
\* its engine: never absent, never of the other kind, never negative.
C9_WrappedValue ==
  \A o \in Objects(heap) : IsUnsignedOfKind(heap[o].cls, heap[o].bitfield)

\* the call is has or missing of the permission engine with an unsigned big integer
AgreementCase ==
  /\ last.op \in {"has", "missing"}
  /\ last.cls = "PermissionsBitField"
  /\ IsUnsignedOfKind(last.cls, last.args[1])

\* has and missing, with the arguments of the call, agree
Agree ==
  Has(heap, last.recv, last.args[1], last.ca) = True
    <=> Missing(heap, last.recv, last.args[1], last.ca) = Arr(<<>>)

\* the call gave what the operator of its name gives
Answered ==
  last.ret = IF last.op = "has" THEN Has(heap, last.recv, last.args[1], last.ca)
             ELSE Missing(heap, last.recv, last.args[1], last.ca)

\* C10 as stated: for every unsigned big integer bits, named or not, and either
\* checkAdmin, missing(bits, checkAdmin) is empty exactly when has(bits, checkAdmin) is true.
C10_AgreementAnyBits == AgreementCase => Answered /\ Agree

\* C10 as amended: whenever has(bits, checkAdmin) is true, missing(bits, checkAdmin)
\* is empty; and when every bit set in bits has a registry name, the converse holds too.
C10_AgreementNamedBits ==
  AgreementCase
    => /\ Answered
       /\ Has(heap, last.recv, last.args[1], last.ca) = True
            => Missing(heap, last.recv, last.args[1], last.ca) = Arr(<<>>)
       /\ AllNamed(last.cls, last.args[1].v) => Agree

\* a receiver without ViewChannel was asked missing(ViewChannel | SendMessages)
\* and named ViewChannel, and has of the same bits is false
C10_Witness ==
  /\ last.op = "missing"
  /\ last.cls = "PermissionsBitField"
  /\ last.args = <<Big(BitOr(ZPow2(10), ZPow2(11)))>>
  /\ last.ret \in {Arr(<<Str(ViewChannelName)>>),
                   Arr(<<Str(ViewChannelName), Str(SendMessagesName)>>)}
  /\ Has(heap, last.recv, last.args[1], last.ca) = False

============================================================================
